---- MODULE Spec2Model ----
(***************************************************************************)
(* Model of .github/scripts/merge_tool_versions.py: one run of main(),     *)
(* from the parsed command line to the process exit, over a small file     *)
(* system.  Text is a sequence of one-character strings, so that the       *)
(* regular expression, strip(), lower(), the f-strings and "\n".join are   *)
(* computed character by character.                                        *)
(***************************************************************************)
EXTENDS Integers, Sequences, FiniteSets, TLC

(***************************************************************************)
(* Text                                                                    *)
(***************************************************************************)

\* A string literal as a sequence of one-character strings.
Chars(s) == [i \in 1..Len(s) |-> SubSeq(s, i, i)]

NL == "\n"

\* The characters \s and str.strip() treat as whitespace.
Whitespace == {" ", "\t", "\n", "\r", "\f"}

UpperAlpha == Chars("ABCDEFGHIJKLMNOPQRSTUVWXYZ")

LowerAlpha == Chars("abcdefghijklmnopqrstuvwxyz")

\* str.lower() on one character.
LowerChar(c) ==
    IF \E i \in 1..Len(UpperAlpha) : UpperAlpha[i] = c
    THEN LowerAlpha[CHOOSE i \in 1..Len(UpperAlpha) : UpperAlpha[i] = c]
    ELSE c

\* str.lower()
Lower(s) == [i \in 1..Len(s) |-> LowerChar(s[i])]

\* str.strip(): drop the leading and the trailing whitespace.
Strip(s) ==
    LET keep == {i \in 1..Len(s) : s[i] \notin Whitespace}
    IN  IF keep = {} THEN <<>>
        ELSE LET lo == CHOOSE i \in keep : \A j \in keep : i <= j
                 hi == CHOOSE i \in keep : \A j \in keep : j <= i
             IN  SubSeq(s, lo, hi)

\* Iterating a text file: the lines, each keeping its "\n"; a last line
\* without one is yielded as it is.
RECURSIVE SplitLines(_)
SplitLines(text) ==
    IF text = <<>> THEN <<>>
    ELSE LET ends == {i \in 1..Len(text) : text[i] = NL}
         IN  IF ends = {} THEN <<text>>
             ELSE LET e == CHOOSE i \in ends : \A j \in ends : i <= j
                  IN  <<SubSeq(text, 1, e)>> \o SplitLines(SubSeq(text, e + 1, Len(text)))

\* sep.join(lines)
RECURSIVE Join(_, _)
Join(lines, sep) ==
    IF lines = <<>> THEN <<>>
    ELSE IF Len(lines) = 1 THEN lines[1]
    ELSE lines[1] \o sep \o Join(Tail(lines), sep)

(***************************************************************************)
(* re.match(r"^\|\s*(.*?)\s*\|\s*(.*?)\s*\|$", line)                       *)
(*                                                                         *)
(* The pattern is  \|  \s*  (.*?)  \s*  \|  \s*  (.*?)  \s*  \|  $  and the *)
(* matcher backtracks: a greedy \s* tries its longest run first, a lazy     *)
(* (.*?) its shortest, and the first assignment for which the rest of the   *)
(* pattern matches is the match.  Rest_x(line, i) says that the pattern     *)
(* from element x on matches at position i.                                 *)
(***************************************************************************)

\* Length of the longest run of characters of set S starting at position i.
Run(line, i, S) ==
    LET stop == {j \in i..Len(line) : line[j] \notin S}
    IN  IF stop = {} THEN (IF i > Len(line) THEN 0 ELSE Len(line) - i + 1)
        ELSE (CHOOSE j \in stop : \A k \in stop : j <= k) - i

WsRun(line, i) == Run(line, i, Whitespace)

\* "." matches any character but the newline.
DotRun(line, i) ==
    LET stop == {j \in i..Len(line) : line[j] = NL}
    IN  IF stop = {} THEN (IF i > Len(line) THEN 0 ELSE Len(line) - i + 1)
        ELSE (CHOOSE j \in stop : \A k \in stop : j <= k) - i

IsPipe(line, i) == i >= 1 /\ i <= Len(line) /\ line[i] = "|"

\* "$" without re.MULTILINE: the end of the string, or just before a
\* newline that ends the string.
AtEnd(line, i) ==
    \/ i = Len(line) + 1
    \/ i = Len(line) /\ line[i] = NL

\* last  \s* \| $  after the second group, which ends before position i
RestWs3(line, i) ==
    \E d \in 0..WsRun(line, i) : IsPipe(line, i + d) /\ AtEnd(line, i + d + 1)

\* second group (.*?) starting at position i
RestGroup2(line, i) ==
    \E m \in 0..DotRun(line, i) : RestWs3(line, i + m)

\* \s* after the middle pipe, which is at position i - 1
RestWs2(line, i) ==
    \E c \in 0..WsRun(line, i) : RestGroup2(line, i + c)

\* \s* \| after the first group, which ends before position i
RestWs1(line, i) ==
    \E b \in 0..WsRun(line, i) : IsPipe(line, i + b) /\ RestWs2(line, i + b + 1)

\* first group (.*?) starting at position i
RestGroup1(line, i) ==
    \E m \in 0..DotRun(line, i) : RestWs1(line, i + m)

\* the whole pattern: ^ \| \s* ...
Matches(line) ==
    /\ IsPipe(line, 1)
    /\ \E a \in 0..WsRun(line, 2) : RestGroup1(line, 2 + a)

Longest(S) == CHOOSE n \in S : \A k \in S : k <= n

Shortest(S) == CHOOSE n \in S : \A k \in S : n <= k

NoMatch == [matched |-> FALSE]

\* The match object once both groups are placed: group 1 is line[s1..e1-1]
\* and group 2 starts at s2 and is the shortest the rest allows.
MatchGroup2(line, s1, e1, s2) ==
    [matched |-> TRUE,
     group1  |-> SubSeq(line, s1, e1 - 1),
     group2  |-> SubSeq(line, s2,
                        s2 + Shortest({k \in 0..DotRun(line, s2) : RestWs3(line, s2 + k)}) - 1)]

\* The middle pipe is at position p; the \s* after it takes the longest run
\* the rest allows.
MatchWs2(line, s1, e1, p) ==
    MatchGroup2(line, s1, e1,
                p + 1 + Longest({k \in 0..WsRun(line, p + 1) : RestGroup2(line, p + 1 + k)}))

\* Group 1 is line[s1..e1-1]; the \s* after it takes the longest run that
\* ends at a pipe and lets the rest match.
MatchWs1(line, s1, e1) ==
    MatchWs2(line, s1, e1,
             e1 + Longest({k \in 0..WsRun(line, e1) :
                             IsPipe(line, e1 + k) /\ RestWs2(line, e1 + k + 1)}))

\* Group 1 starts at s1 and is the shortest the rest allows.
MatchGroup1(line, s1) ==
    MatchWs1(line, s1, s1 + Shortest({k \in 0..DotRun(line, s1) : RestWs1(line, s1 + k)}))

\* The match object: group(1) and group(2) of the first successful
\* assignment in the matcher's order.  The \s* after the first pipe takes
\* the longest run the rest allows.
ReMatch(line) ==
    IF ~Matches(line) THEN NoMatch
    ELSE MatchGroup1(line,
                     2 + Longest({k \in 0..WsRun(line, 2) : RestGroup1(line, 2 + k)}))

(***************************************************************************)
(* dict: Python's insertion-ordered mapping, a sequence of key/value       *)
(* entries with distinct keys.                                             *)
(***************************************************************************)

EmptyDict == <<>>

DictHas(d, k) == \E i \in 1..Len(d) : d[i].key = k

\* d[k] = v moved to the end of the mapping when k is already a key.
DictSetMovesKey(d, k, v) ==
    LET rest == SelectSeq(d, LAMBDA e : e.key # k)
    IN  Append(rest, [key |-> k, val |-> v])

\* d[k] = v: a new key is appended; an existing key keeps its place and
\* takes the new value.
DictSet(d, k, v) ==
    IF DictHas(d, k)
    THEN [i \in 1..Len(d) |-> IF d[i].key = k THEN [key |-> k, val |-> v] ELSE d[i]]
    ELSE Append(d, [key |-> k, val |-> v])

\* d.get(k, ""): the empty string, not the default, for a key that is absent.
DictGetEmptyDefault(d, k, default) ==
    IF DictHas(d, k)
    THEN d[CHOOSE i \in 1..Len(d) : d[i].key = k].val
    ELSE <<>>

\* d.get(k, default)
DictGet(d, k, default) ==
    IF DictHas(d, k)
    THEN d[CHOOSE i \in 1..Len(d) : d[i].key = k].val
    ELSE default

\* iterating d: the keys in insertion order
DictKeys(d) == [i \in 1..Len(d) |-> d[i].key]

(***************************************************************************)
(* parse_markdown_table                                                    *)
(***************************************************************************)

\* the list ["tool", ":---"] of line 25
SkippedTools == {Chars("tool"), Chars(":---")}

\* The test of line 25 without lower(): only the lower-case header is skipped.
IsHeaderOrSeparatorCaseSensitive(tool) == tool \in SkippedTools

\* line 25: tool.lower() in ["tool", ":---"]
IsHeaderOrSeparator(tool) == Lower(tool) \in SkippedTools

\* The body of the loop of lines 18-27 for one line: the mapping after it.
ParseLine(tools, line) ==
    LET match == ReMatch(line)
    IN  IF ~match.matched THEN tools
        ELSE LET tool    == Strip(match.group1)
                 version == Strip(match.group2)
             IN  IF IsHeaderOrSeparator(tool) THEN tools
                 ELSE DictSet(tools, tool, version)

\* The loop of lines 17-27 over the lines of an open file.
RECURSIVE ParseLines(_, _)
ParseLines(tools, lines) ==
    IF lines = <<>> THEN tools
    ELSE ParseLines(ParseLine(tools, Head(lines)), Tail(lines))

(***************************************************************************)
(* Command line, clock and file system                                     *)
(***************************************************************************)

\* argparse leaves an option that was not given at None.
None == [given |-> FALSE]

Arg(path) == [given |-> TRUE, path |-> path]

\* Python's truth value of an option: None and "" are both false.
Truthy(a) == a.given /\ a.path # ""

AmdPath == "amd64.md"

ArmPath == "arm64.md"

OutDir == "out"

OutPath == "out/unified.md"

\* Path(p).parent
Parent(p) == IF p = OutPath THEN OutDir ELSE "."

Nodes == {AmdPath, ArmPath, OutDir, OutPath}

NoNode == [kind |-> "none"]

Dir == [kind |-> "dir"]

File(text) == [kind |-> "file", text |-> text]

\* Path(p).exists()
Exists(files, p) == files[p].kind # "none"

\* str(n) for one decimal digit
Digit(n) == SubSeq("0123456789", n + 1, n + 1)

\* %m, %d, %H, %M, %S: two digits, zero padded
Pad2(n) == <<Digit((n \div 10) % 10), Digit(n % 10)>>

\* %Y for a four-digit year
Pad4(n) == <<Digit((n \div 1000) % 10), Digit((n \div 100) % 10)>> \o Pad2(n % 100)

\* strftime("%Y-%m-%d %H:%M:%S")
Strftime(dt) ==
    Pad4(dt.year) \o <<"-">> \o Pad2(dt.month) \o <<"-">> \o Pad2(dt.day) \o <<" ">>
    \o Pad2(dt.hour) \o <<":">> \o Pad2(dt.minute) \o <<":">> \o Pad2(dt.second)

\* print(text, file=stream): the text and a newline are appended.
PyPrint(stream, text) == stream \o text \o <<NL>>

(***************************************************************************)
(* parse_markdown_table(file_path), lines 9-28: the mapping it returns,    *)
(* what it prints and the file system calls it makes.                      *)
(***************************************************************************)

WarningText(file_path) == Chars("Warning: ") \o Chars(file_path) \o Chars(" not found.")

parse_markdown_table(files, file_path) ==
    IF ~Exists(files, file_path)
    THEN [tools   |-> EmptyDict,
          printed |-> PyPrint(<<>>, WarningText(file_path)),
          calls   |-> <<<<"exists", file_path>>>>]
    ELSE [tools   |-> ParseLines(EmptyDict, SplitLines(files[file_path].text)),
          printed |-> <<>>,
          calls   |-> <<<<"exists", file_path>>, <<"open", file_path>>>>]

(***************************************************************************)
(* main(): the union of the tool names, lines 53-60                        *)
(***************************************************************************)

\* The inner loop of lines 57-60 over the keys of one mapping; acc holds
\* all_tools and seen.
RECURSIVE AddUnseen(_, _)
AddUnseen(acc, keys) ==
    IF keys = <<>> THEN acc
    ELSE LET tool == Head(keys)
         IN  IF tool \notin acc.seen
             THEN AddUnseen([all_tools |-> Append(acc.all_tools, tool),
                             seen      |-> acc.seen \cup {tool}], Tail(keys))
             ELSE AddUnseen(acc, Tail(keys))

\* The union taken from the arm64 mapping first.
UnionOfToolsArmFirst(amd, arm) ==
    AddUnseen(AddUnseen([all_tools |-> <<>>, seen |-> {}], DictKeys(arm)),
              DictKeys(amd)).all_tools

\* lines 54-60: for tools in [amd64_tools, arm64_tools]: ...
UnionOfTools(amd, arm) ==
    AddUnseen(AddUnseen([all_tools |-> <<>>, seen |-> {}], DictKeys(amd)),
              DictKeys(arm)).all_tools

(***************************************************************************)
(* main(): the report, lines 62-103                                        *)
(***************************************************************************)

NotFound == Chars("Not found")

\* line 80: f"| {tool} | {v_amd64} | {v_arm64} |"
Row3(tool, v_amd64, v_arm64) ==
    Chars("| ") \o tool \o Chars(" | ") \o v_amd64 \o Chars(" | ") \o v_arm64 \o Chars(" |")

\* The row without its closing pipe.
Row2Unclosed(tool, v) == Chars("| ") \o tool \o Chars(" | ") \o v

\* lines 91 and 102: f"| {tool} | {v} |"
Row2(tool, v) == Chars("| ") \o tool \o Chars(" | ") \o v \o Chars(" |")

\* lines 63-67
Preamble(now_text) ==
    <<Chars("# Tool Versions"), Chars("Generated on ") \o now_text, <<>>>>

\* The table chosen by the mappings that hold entries rather than by the
\* options that were given.
TableByContent(amd64_path, arm64_path, amd, arm, tools) ==
    IF amd # EmptyDict /\ arm # EmptyDict
    THEN <<Chars("| Tool | amd64 | arm64 | "), Chars("| :--- | :--- | :--- |")>>
         \o [i \in 1..Len(tools) |->
               Row3(tools[i], DictGet(amd, tools[i], NotFound), DictGet(arm, tools[i], NotFound))]
    ELSE IF Truthy(amd64_path) /\ arm = EmptyDict
    THEN <<Chars("| Tool | amd64 |"), Chars("| :--- | :--- |")>>
         \o [i \in 1..Len(tools) |-> Row2(tools[i], DictGet(amd, tools[i], NotFound))]
    ELSE <<Chars("| Tool | arm64 |"), Chars("| :--- | :--- |")>>
         \o [i \in 1..Len(tools) |-> Row2(tools[i], DictGet(arm, tools[i], NotFound))]

\* lines 69-102: the header, the separator and one row per tool
Table(amd64_path, arm64_path, amd, arm, tools) ==
    IF Truthy(amd64_path) /\ Truthy(arm64_path)
    THEN <<Chars("| Tool | amd64 | arm64 | "), Chars("| :--- | :--- | :--- |")>>
         \o [i \in 1..Len(tools) |->
               Row3(tools[i], DictGet(amd, tools[i], NotFound), DictGet(arm, tools[i], NotFound))]
    ELSE IF Truthy(amd64_path)
    THEN <<Chars("| Tool | amd64 |"), Chars("| :--- | :--- |")>>
         \o [i \in 1..Len(tools) |-> Row2(tools[i], DictGet(amd, tools[i], NotFound))]
    ELSE IF Truthy(arm64_path)
    THEN <<Chars("| Tool | arm64 |"), Chars("| :--- | :--- |")>>
         \o [i \in 1..Len(tools) |-> Row2(tools[i], DictGet(arm, tools[i], NotFound))]
    ELSE <<>>

\* The lines joined without the newline that ends the text.
JoinContentUnterminated(content) == Join(content, <<NL>>)

\* line 103: "\n".join(content) + "\n"
JoinContent(content) == Join(content, <<NL>>) \o <<NL>>

(***************************************************************************)
(* State of one run                                                        *)
(***************************************************************************)

VARIABLES
    argv,             \* args: the options --amd64, --arm64 and --output
    fs,               \* the file system: what is at each path
    pc,               \* the position in main()
    now,              \* line 48
    amd64_tools,      \* line 50
    arm64_tools,      \* line 51
    all_tools,        \* lines 54-60
    unified_content,  \* line 103
    stdout,           \* what was printed to standard output
    stderr,           \* what was printed to the error stream
    exit_code,        \* <<>> while the process runs, <<code>> once it has exited
    raised,           \* the uncaught exception that ended the run, or "" 
    io,               \* the file system calls made so far, in order
    report_tools      \* parse_markdown_table of the report fed back as an input

vars == <<argv, fs, pc, now, amd64_tools, arm64_tools, all_tools, unified_content,
          stdout, stderr, exit_code, raised, io, report_tools>>

(***************************************************************************)
(* Inputs: the command lines and file systems the runs start from          *)
(***************************************************************************)

\* Largest number of lines of an input file when both reports are merged.
MaxLines == 2

\* Largest number of lines of an input file when one report is parsed alone.
MaxTableLines == 3

\* The readings of the clock.
Clock ==
    {[year |-> 2024, month |-> 3, day |-> 9, hour |-> 7, minute |-> 5, second |-> 0],
     [year |-> 2026, month |-> 11, day |-> 30, hour |-> 23, minute |-> 59, second |-> 58]}

\* All sequences of at most n elements of S.
SeqsUpTo(S, n) == UNION {[1..k -> S] : k \in 0..n}

\* The text of a file made of the given lines, each ended by a newline.
RECURSIVE TextOf(_)
TextOf(lines) ==
    IF lines = <<>> THEN <<>> ELSE Head(lines) \o <<NL>> \o TextOf(Tail(lines))

AmdLines == {Chars("| git | 2.40 |"), Chars("| curl | 8.1 |"), Chars("| git |  |")}

ArmLines == {Chars("| curl | 8.0 |"), Chars("| make | 4.3 |"), Chars("| git | Not found |")}

TableLines ==
    {Chars("| git | 2.40 |"), Chars("| git | 2.41 |"), Chars("| curl | 8.1 |"),
     Chars("| Tool | Version |"), Chars("| :--- | :--- |")}

\* Single lines around the shape of a table row: padded or unpadded cells,
\* empty cells, header and separator spellings, a third column, text after
\* the last pipe, a last line without a newline.
OddPads == {<<>>, <<" ">>, <<"\t">>}

OddTools ==
    {<<>>, Chars("go"), Chars("Tool"), Chars("TOOL"), Chars("tool"), Chars(":---"),
     Chars("a b"), Chars(":--")}

OddVersions == {<<>>, Chars("1.21"), Chars("x | y"), Chars("Tool")}

OddEnds == {<<NL>>, <<>>, <<" ", NL>>}

\* Texts that hold no table row at all.
OddJunk ==
    {Chars("# Tool Versions") \o <<NL>>, <<NL>>, Chars("||") \o <<NL>>, Chars("| go | 1.21")}

OddTexts ==
    {<<"|">> \o l \o t \o r \o <<"|">> \o l \o v \o r \o <<"|">> \o e :
        l \in OddPads, r \in OddPads, t \in OddTools, v \in OddVersions, e \in OddEnds}
    \cup OddJunk

OldReport == Chars("stale") \o <<NL>>

\* An option for one architecture and what is at its path.
ArchChoices(path, texts) ==
    {[arg |-> None, node |-> NoNode], [arg |-> Arg(""), node |-> NoNode],
     [arg |-> Arg(path), node |-> NoNode]}
    \cup {[arg |-> Arg(path), node |-> File(t)] : t \in texts}

NoOutput == [arg |-> None, dir |-> NoNode, node |-> NoNode]

\* --output and what is at its path and at its parent: nothing, the
\* directory, an older report, a regular file where the directory should
\* be, a directory where the report should be.
OutChoices ==
    {NoOutput,
     [arg |-> Arg(""), dir |-> NoNode, node |-> NoNode],
     [arg |-> Arg(OutPath), dir |-> NoNode, node |-> NoNode],
     [arg |-> Arg(OutPath), dir |-> Dir, node |-> NoNode],
     [arg |-> Arg(OutPath), dir |-> Dir, node |-> File(OldReport)],
     [arg |-> Arg(OutPath), dir |-> File(OldReport), node |-> NoNode],
     [arg |-> Arg(OutPath), dir |-> Dir, node |-> Dir]}

Input(a, b, o) ==
    [argv |-> [amd64 |-> a.arg, arm64 |-> b.arg, output |-> o.arg],
     fs   |-> [n \in Nodes |->
                 IF n = AmdPath THEN a.node
                 ELSE IF n = ArmPath THEN b.node
                 ELSE IF n = OutDir THEN o.dir
                 ELSE o.node]]

\* Two reports of at most MaxLines lines each, no --output.
MergeInputs ==
    {Input(a, b, NoOutput) :
        a \in ArchChoices(AmdPath, {TextOf(f) : f \in SeqsUpTo(AmdLines, MaxLines)}),
        b \in ArchChoices(ArmPath, {TextOf(f) : f \in SeqsUpTo(ArmLines, MaxLines)})}

\* Every state of the output path, with small reports.
OutputInputs ==
    {Input(a, b, o) :
        a \in ArchChoices(AmdPath, {TextOf(<<Chars("| git | 2.40 |")>>)}),
        b \in ArchChoices(ArmPath, {TextOf(<<Chars("| make | 4.3 |")>>)}),
        o \in OutChoices}

\* The amd64 report alone, of at most MaxTableLines lines or of one odd line.
TableInputs ==
    {Input([arg |-> Arg(AmdPath), node |-> File(t)], [arg |-> None, node |-> NoNode],
           NoOutput) :
        t \in {TextOf(f) : f \in SeqsUpTo(TableLines, MaxTableLines)} \cup OddTexts}

Inputs == MergeInputs \cup OutputInputs \cup TableInputs

Init ==
    /\ \E in \in Inputs : argv = in.argv /\ fs = in.fs
    /\ pc = "start"
    /\ now = <<>>
    /\ amd64_tools = EmptyDict
    /\ arm64_tools = EmptyDict
    /\ all_tools = <<>>
    /\ unified_content = <<>>
    /\ stdout = <<>>
    /\ stderr = <<>>
    /\ exit_code = <<>>
    /\ raised = ""
    /\ io = <<>>
    /\ report_tools = EmptyDict

(***************************************************************************)
(* main()                                                                  *)
(***************************************************************************)

UsageMessage == Chars("Error: At least one of --amd64 or --arm64 must be provided.")

\* line 44: not amd64_path and not arm64_path
UsageError(args) == ~Truthy(args.amd64) /\ ~Truthy(args.arm64)

\* The usage check that reports the error and goes on, without sys.exit(1).
CheckUsageFallsThrough ==
    /\ pc = "start"
    /\ IF UsageError(argv)
       THEN stderr' = PyPrint(stderr, UsageMessage)
       ELSE UNCHANGED stderr
    /\ pc' = "now"
    /\ UNCHANGED <<argv, fs, now, amd64_tools, arm64_tools, all_tools, unified_content,
                   stdout, exit_code, raised, io, report_tools>>

\* lines 43-46: the usage check; sys.exit(1) ends the run.
CheckUsage ==
    /\ pc = "start"
    /\ IF UsageError(argv)
       THEN /\ stderr' = PyPrint(stderr, UsageMessage)
            /\ exit_code' = <<1>>
            /\ pc' = "exit"
       ELSE /\ pc' = "now"
            /\ UNCHANGED <<stderr, exit_code>>
    /\ UNCHANGED <<argv, fs, now, amd64_tools, arm64_tools, all_tools, unified_content,
                   stdout, raised, io, report_tools>>

\* line 48: the local time, formatted
GetNow ==
    /\ pc = "now"
    /\ \E dt \in Clock : now' = Strftime(dt)
    /\ pc' = "parse_amd64"
    /\ UNCHANGED <<argv, fs, amd64_tools, arm64_tools, all_tools, unified_content,
                   stdout, stderr, exit_code, raised, io, report_tools>>

\* line 50: parse_markdown_table(amd64_path) if amd64_path else {}
ParseAmd64 ==
    /\ pc = "parse_amd64"
    /\ IF Truthy(argv.amd64)
       THEN LET r == parse_markdown_table(fs, argv.amd64.path)
            IN  /\ amd64_tools' = r.tools
                /\ stdout' = stdout \o r.printed
                /\ io' = io \o r.calls
       ELSE /\ amd64_tools' = EmptyDict
            /\ UNCHANGED <<stdout, io>>
    /\ pc' = "parse_arm64"
    /\ UNCHANGED <<argv, fs, now, arm64_tools, all_tools, unified_content,
                   stderr, exit_code, raised, report_tools>>

\* line 51: parse_markdown_table(arm64_path) if arm64_path else {}
ParseArm64 ==
    /\ pc = "parse_arm64"
    /\ IF Truthy(argv.arm64)
       THEN LET r == parse_markdown_table(fs, argv.arm64.path)
            IN  /\ arm64_tools' = r.tools
                /\ stdout' = stdout \o r.printed
                /\ io' = io \o r.calls
       ELSE /\ arm64_tools' = EmptyDict
            /\ UNCHANGED <<stdout, io>>
    /\ pc' = "merge"
    /\ UNCHANGED <<argv, fs, now, amd64_tools, all_tools, unified_content,
                   stderr, exit_code, raised, report_tools>>

\* lines 53-60
Merge ==
    /\ pc = "merge"
    /\ all_tools' = UnionOfTools(amd64_tools, arm64_tools)
    /\ pc' = "format"
    /\ UNCHANGED <<argv, fs, now, amd64_tools, arm64_tools, unified_content,
                   stdout, stderr, exit_code, raised, io, report_tools>>

\* lines 62-103
Format ==
    /\ pc = "format"
    /\ unified_content' =
          JoinContent(Preamble(now)
                      \o Table(argv.amd64, argv.arm64, amd64_tools, arm64_tools, all_tools))
    /\ pc' = "save"
    /\ UNCHANGED <<argv, fs, now, amd64_tools, arm64_tools, all_tools,
                   stdout, stderr, exit_code, raised, io, report_tools>>

\* An uncaught exception: the interpreter prints a traceback (of which only
\* the first line is kept here) to the error stream and exits with code 1.
Raise(exception) ==
    /\ raised' = exception
    /\ stderr' = PyPrint(stderr, Chars("Traceback (most recent call last):"))
    /\ exit_code' = <<1>>
    /\ pc' = "exit"

\* The save step that writes into the directory without creating it.
SaveEffectNoMkdir(files, path, text) ==
    IF files[Parent(path)].kind # "dir"
    THEN [files |-> files, calls |-> <<<<"write", path>>>>, raised |-> "FileNotFoundError"]
    ELSE IF files[path].kind = "dir"
    THEN [files |-> files, calls |-> <<<<"write", path>>>>, raised |-> "IsADirectoryError"]
    ELSE [files  |-> [files EXCEPT ![path] = File(text)],
          calls  |-> <<<<"write", path>>>>,
          raised |-> ""]

\* lines 107-109: output_path.parent.mkdir(parents=True, exist_ok=True), which
\* raises FileExistsError when the parent is a regular file, and then
\* output_path.write_text(text), which replaces the whole file and raises
\* IsADirectoryError when the path is a directory.
SaveEffect(files, path, text) ==
    LET parent == Parent(path)
        made   == [files EXCEPT ![parent] = Dir]
    IN  IF files[parent].kind = "file"
        THEN [files |-> files, calls |-> <<<<"mkdir", parent>>>>, raised |-> "FileExistsError"]
        ELSE IF made[path].kind = "dir"
        THEN [files  |-> made,
              calls  |-> <<<<"mkdir", parent>>, <<"write", path>>>>,
              raised |-> "IsADirectoryError"]
        ELSE [files  |-> [made EXCEPT ![path] = File(text)],
              calls  |-> <<<<"mkdir", parent>>, <<"write", path>>>>,
              raised |-> ""]

\* lines 105-109: save the report when --output was given
Save ==
    /\ pc = "save"
    /\ IF Truthy(argv.output)
       THEN LET r == SaveEffect(fs, argv.output.path, unified_content)
            IN  /\ fs' = r.files
                /\ io' = io \o r.calls
                /\ IF r.raised # ""
                   THEN Raise(r.raised)
                   ELSE /\ pc' = "print"
                        /\ UNCHANGED <<raised, stderr, exit_code>>
       ELSE /\ pc' = "print"
            /\ UNCHANGED <<fs, io, raised, stderr, exit_code>>
    /\ UNCHANGED <<argv, now, amd64_tools, arm64_tools, all_tools, unified_content,
                   stdout, report_tools>>

\* line 110, then main() returns and the process exits with code 0
PrintReport ==
    /\ pc = "print"
    /\ stdout' = PyPrint(stdout, unified_content)
    /\ exit_code' = <<0>>
    /\ pc' = "exit"
    /\ UNCHANGED <<argv, fs, now, amd64_tools, arm64_tools, all_tools, unified_content,
                   stderr, raised, io, report_tools>>

\* The report of a finished run given back to parse_markdown_table as the
\* file of an input path (lines 9-28).
ParseReport ==
    /\ pc = "exit"
    /\ exit_code = <<0>>
    /\ report_tools' =
          parse_markdown_table([fs EXCEPT ![AmdPath] = File(unified_content)], AmdPath).tools
    /\ pc' = "reparsed"
    /\ UNCHANGED <<argv, fs, now, amd64_tools, arm64_tools, all_tools, unified_content,
                   stdout, stderr, exit_code, raised, io>>

Next ==
    \/ CheckUsage
    \/ GetNow
    \/ ParseAmd64
    \/ ParseArm64
    \/ Merge
    \/ Format
    \/ Save
    \/ PrintReport
    \/ ParseReport

Spec == Init /\ [][Next]_vars

(***************************************************************************)
(* Reading a run: the options, the report and its rows                     *)
(***************************************************************************)

TypeOK ==
    /\ pc \in {"start", "now", "parse_amd64", "parse_arm64", "merge", "format", "save",
               "print", "exit", "reparsed"}
    /\ exit_code \in {<<>>, <<0>>, <<1>>}

Range(seq) == {seq[i] : i \in 1..Len(seq)}

AmdSupplied == argv.amd64.given /\ argv.amd64.path # ""

ArmSupplied == argv.arm64.given /\ argv.arm64.path # ""

OutputSupplied == argv.output.given /\ argv.output.path # ""

\* The run passed the usage check.
PassedUsage == AmdSupplied \/ ArmSupplied

\* The report has been formatted.
Formatted == PassedUsage /\ pc \in {"save", "print", "exit", "reparsed"}

\* The run has ended without an exception.
Succeeded == PassedUsage /\ pc \in {"exit", "reparsed"} /\ raised = ""

\* The text ends with a newline.
Terminated(text) == text # <<>> /\ text[Len(text)] = NL

\* The lines of a text, without their newlines: line k runs from after the
\* (k-1)-th newline to before the k-th.
LinesOfText(text) ==
    LET ends     == {i \in 1..Len(text) : text[i] = NL}
        EndOf(k) == CHOOSE i \in ends : Cardinality({j \in ends : j <= i}) = k
    IN  [k \in 1..Cardinality(ends) |->
           SubSeq(text, IF k = 1 THEN 1 ELSE EndOf(k - 1) + 1, EndOf(k) - 1)]

ReportLines == LinesOfText(unified_content)

\* The rows after the title, the timestamp, the blank line, the header
\* and the separator.
DataRows == SubSeq(ReportLines, 6, Len(ReportLines))

PipesOf(row) == {i \in 1..Len(row) : row[i] = "|"}

\* The position of the k-th pipe of a row.
PipeAt(row, k) ==
    CHOOSE i \in PipesOf(row) : Cardinality({j \in PipesOf(row) : j <= i}) = k

\* The first cell of a row: the text between its first two pipes, trimmed.
FirstCell(row) ==
    IF Cardinality(PipesOf(row)) < 2 THEN <<>>
    ELSE Strip(SubSeq(row, PipeAt(row, 1) + 1, PipeAt(row, 2) - 1))

HasKey(d, k) == \E i \in 1..Len(d) : d[i].key = k

\* The version a mapping records for a tool that is one of its keys.
Recorded(d, k) == d[CHOOSE i \in 1..Len(d) : d[i].key = k].val

\* Every amd64 tool in amd64 order, then the tools only arm64 has, in arm64 order.
ExpectedOrder ==
    DictKeys(amd64_tools)
    \o SelectSeq(DictKeys(arm64_tools), LAMBDA k : ~HasKey(amd64_tools, k))

AmdCell(t) == IF HasKey(amd64_tools, t) THEN Recorded(amd64_tools, t) ELSE Chars("Not found")

ArmCell(t) == IF HasKey(arm64_tools, t) THEN Recorded(arm64_tools, t) ELSE Chars("Not found")

ExpectedRow3(t) ==
    Chars("| ") \o t \o Chars(" | ") \o AmdCell(t) \o Chars(" | ") \o ArmCell(t) \o Chars(" |")

(***************************************************************************)
(* C1                                                                      *)
(***************************************************************************)

\* C1: the tool names of the data rows of the report are every amd64 tool
\* in amd64 insertion order followed by the tools only arm64 has in arm64
\* insertion order; no name is in two rows, and there are as many rows as
\* tools in the union of the two key sets.
C1_UnionOrder ==
    Formatted =>
        LET names == [i \in 1..Len(DataRows) |-> FirstCell(DataRows[i])]
        IN  /\ names = ExpectedOrder
            /\ \A i, j \in 1..Len(names) : i # j => names[i] # names[j]
            /\ Len(DataRows)
                   = Cardinality(Range(DictKeys(amd64_tools)) \cup Range(DictKeys(arm64_tools)))

\* Both mappings hold two tools, one of them shared: three rows.
C1_Witness ==
    /\ Succeeded
    /\ Len(amd64_tools) = 2
    /\ Len(arm64_tools) = 2
    /\ \E k \in Range(DictKeys(arm64_tools)) : HasKey(amd64_tools, k)
    /\ \E k \in Range(DictKeys(arm64_tools)) : ~HasKey(amd64_tools, k)
    /\ Len(DataRows) = 3

(***************************************************************************)
(* C2                                                                      *)
(***************************************************************************)

ExampleAmd == TextOf(<<Chars("| git | 2.40 |"), Chars("| curl | 8.1 |")>>)

ExampleArm == TextOf(<<Chars("| curl | 8.0 |"), Chars("| make | 4.3 |")>>)

IsExample == fs[AmdPath] = File(ExampleAmd) /\ fs[ArmPath] = File(ExampleArm)

\* C2 (as amended): with both architectures supplied, the row of every tool
\* of the union is | tool | amd64 cell | arm64 cell |, where a cell is the
\* version that architecture records for the tool, the empty string
\* included, and is Not found when the tool is not a key of its mapping;
\* the example of the claim gives its three rows in its order.
C2_Rows ==
    (Formatted /\ AmdSupplied /\ ArmSupplied) =>
        /\ Len(DataRows) = Len(ExpectedOrder)
        /\ \A i \in 1..Len(DataRows) : DataRows[i] = ExpectedRow3(ExpectedOrder[i])
        /\ IsExample =>
              DataRows = <<Chars("| git | 2.40 | Not found |"),
                           Chars("| curl | 8.1 | 8.0 |"),
                           Chars("| make | Not found | 4.3 |")>>

\* The run of the example of the claim has ended.
C2_Witness == Succeeded /\ AmdSupplied /\ ArmSupplied /\ IsExample /\ Len(DataRows) = 3

\* C2 as stated: moreover a cell reads Not found if and only if the tool is
\* absent from that architecture's mapping.
C2_NotFoundIffAbsent ==
    (Formatted /\ AmdSupplied /\ ArmSupplied) =>
        \A i \in 1..Len(DataRows) :
            LET t == ExpectedOrder[i]
            IN  /\ DataRows[i] = ExpectedRow3(t)
                /\ (AmdCell(t) = Chars("Not found")) <=> ~HasKey(amd64_tools, t)
                /\ (ArmCell(t) = Chars("Not found")) <=> ~HasKey(arm64_tools, t)

(***************************************************************************)
(* C3                                                                      *)
(***************************************************************************)

\* C3: the header row and the separator row are chosen by the architectures
\* supplied: | Tool | amd64 | arm64 | over | :--- | :--- | :--- | for both,
\* | Tool | amd64 | or | Tool | arm64 | over | :--- | :--- | for one.
C3_HeaderBySelection ==
    Formatted =>
        /\ Len(ReportLines) >= 5
        /\ (AmdSupplied /\ ArmSupplied) =>
              /\ ReportLines[4] = Chars("| Tool | amd64 | arm64 |")
              /\ ReportLines[5] = Chars("| :--- | :--- | :--- |")
        /\ (AmdSupplied /\ ~ArmSupplied) =>
              /\ ReportLines[4] = Chars("| Tool | amd64 |")
              /\ ReportLines[5] = Chars("| :--- | :--- |")
        /\ (~AmdSupplied /\ ArmSupplied) =>
              /\ ReportLines[4] = Chars("| Tool | arm64 |")
              /\ ReportLines[5] = Chars("| :--- | :--- |")

(***************************************************************************)
(* C4                                                                      *)
(***************************************************************************)

\* C4: when neither --amd64 nor --arm64 is supplied the run ends with exit
\* code 1 and the usage error on the error stream, and no step of it reads
\* an input, creates a directory, creates or overwrites a file or prints to
\* standard output, also when --output was given.
C4_UsageErrorNoWork ==
    /\ [](~PassedUsage =>
            /\ pc \in {"start", "exit"}
            /\ stdout = <<>>
            /\ io = <<>>
            /\ pc = "exit" =>
                  /\ exit_code = <<1>>
                  /\ stderr = Chars("Error: At least one of --amd64 or --arm64 must be provided.")
                              \o <<NL>>)
    /\ [][~PassedUsage => (fs' = fs /\ pc' = "exit")]_vars

\* The run has ended on the usage error although --output was given over an
\* older report.
C4_Witness ==
    /\ ~PassedUsage
    /\ OutputSupplied
    /\ fs[OutPath].kind = "file"
    /\ pc = "exit"
    /\ exit_code = <<1>>

(***************************************************************************)
(* C5                                                                      *)
(***************************************************************************)

IsPrefix(p, text) == Len(p) <= Len(text) /\ SubSeq(text, 1, Len(p)) = p

IsSuffix(p, text) ==
    Len(p) <= Len(text) /\ SubSeq(text, Len(text) - Len(p) + 1, Len(text)) = p

Contains(p, text) ==
    \E i \in 0..(Len(text) - Len(p)) : SubSeq(text, i + 1, i + Len(p)) = p

AmdMissing == AmdSupplied /\ fs[AmdPath].kind = "none"

ArmMissing == ArmSupplied /\ fs[ArmPath].kind = "none"

AfterParseAmd == PassedUsage /\ pc \notin {"start", "now", "parse_amd64"}

AfterParseArm == PassedUsage /\ pc \notin {"start", "now", "parse_amd64", "parse_arm64"}

\* The report has reached standard output, followed by the newline of print.
ReportPrinted == IsSuffix(unified_content \o <<NL>>, stdout)

\* The run ended by an exception of the save step.
SaveRaised ==
    /\ OutputSupplied
    /\ raised \in {"FileExistsError", "IsADirectoryError"}
    /\ io # <<>>
    /\ io[Len(io)][1] \in {"mkdir", "write"}

\* A run whose path for one architecture does not exist goes on to the end:
\* it exits 0 with the report printed, unless the save step raised.
RunsToTheEnd ==
    pc \in {"exit", "reparsed"} =>
        \/ raised = "" /\ exit_code = <<0>> /\ ReportPrinted
        \/ SaveRaised /\ exit_code = <<1>>

Ended == PassedUsage /\ pc \in {"exit", "reparsed"}

\* The save step made the directory and then wrote the report over
\* whatever was at the path.
ReportSaved ==
    /\ fs[OutDir] = Dir
    /\ fs[OutPath] = File(unified_content)
    /\ Len(io) >= 2
    /\ io[Len(io) - 1] = <<"mkdir", OutDir>>
    /\ io[Len(io)] = <<"write", OutPath>>

\* C6 (as amended): a run that passes the usage check and whose save step
\* does not raise prints the complete report to standard output and exits
\* 0, whether or not --output was supplied; with --output the missing
\* parent directory is created first and the file then holds exactly the
\* report.  The save step raises only when the parent is a regular file or
\* the path is a directory; the exception ends the run with a non-zero
\* exit code and the report is not printed.
C6_PrintedUnlessSaveRaises ==
    Ended =>
        /\ raised = "" =>
              /\ exit_code = <<0>>
              /\ ReportPrinted
              /\ IF OutputSupplied
                 THEN ReportSaved
                 ELSE \A i \in 1..Len(io) : io[i][1] \notin {"mkdir", "write"}
        /\ raised # "" =>
              /\ OutputSupplied
              /\ exit_code = <<1>>
              /\ ~Contains(unified_content, stdout)
              /\ \/ raised = "FileExistsError" /\ fs[OutDir].kind = "file"
                 \/ raised = "IsADirectoryError" /\ fs[OutDir] = Dir /\ fs[OutPath] = Dir

\* A run with --output has ended with the report printed and saved.
C6_Witness ==
    /\ Ended
    /\ OutputSupplied
    /\ raised = ""
    /\ ReportPrinted
    /\ ReportSaved

\* C6 as stated: every run that passes the usage check ends with the report
\* printed, whatever the outcome of the save step, and with --output the
\* report saved.
C6_AlwaysPrinted ==
    Ended =>
        /\ ReportPrinted
        /\ OutputSupplied => ReportSaved

(***************************************************************************)
(* Reading an input file: the lines of the shape of a table row            *)
(***************************************************************************)

\* A line without the newline that ends it.
Body(line) == IF Terminated(line) THEN SubSeq(line, 1, Len(line) - 1) ELSE line

\* The table-row shape | col1 | col2 |: the line starts with a pipe, ends
\* with a pipe and holds a pipe in between.
RowShape(line) ==
    /\ Len(Body(line)) >= 3
    /\ Body(line)[1] = "|"
    /\ Body(line)[Len(Body(line))] = "|"
    /\ \E i \in 2..(Len(Body(line)) - 1) : Body(line)[i] = "|"

\* The second column of a line of the table-row shape: the text between
\* its second pipe and its last one, trimmed.
SecondColumn(line) ==
    Strip(SubSeq(Body(line), PipeAt(Body(line), 2) + 1, Len(Body(line)) - 1))

\* The first column is tool in any mix of cases, or :---
Reserved(k) ==
    \/ /\ Len(k) = 4
       /\ k[1] \in {"t", "T"}
       /\ k[2] \in {"o", "O"}
       /\ k[3] \in {"o", "O"}
       /\ k[4] \in {"l", "L"}
    \/ k = <<":", "-", "-", "-">>

\* The lines of the file at a path.
InputLines(path) == SplitLines(fs[path].text)

\* The places of the lines that are data: of the table-row shape, with a
\* first column that is not reserved.
DataAt(lines) ==
    {i \in 1..Len(lines) : RowShape(lines[i]) /\ ~Reserved(FirstCell(lines[i]))}

AmdParsed == AmdSupplied /\ fs[AmdPath].kind = "file" /\ AfterParseAmd

ArmParsed == ArmSupplied /\ fs[ArmPath].kind = "file" /\ AfterParseArm

(***************************************************************************)
(* C7                                                                      *)
(***************************************************************************)

\* The keys of the mapping are the first columns of the data lines, and
\* only those.
KeysAreDataLines(tools, lines) ==
    /\ Range(DictKeys(tools)) = {FirstCell(lines[i]) : i \in DataAt(lines)}
    /\ \A k \in Range(DictKeys(tools)) : ~Reserved(k)

\* C7: a line of the table-row shape whose trimmed first column is tool in
\* any case, or :---, adds no entry to the mapping and gives no data row of
\* the report, whatever its second column; every other line of the
\* table-row shape gives an entry for its first column.
C7_HeaderAndSeparatorSkipped ==
    /\ AmdParsed => KeysAreDataLines(amd64_tools, InputLines(AmdPath))
    /\ ArmParsed => KeysAreDataLines(arm64_tools, InputLines(ArmPath))
    /\ Formatted => \A i \in 1..Len(DataRows) : ~Reserved(FirstCell(DataRows[i]))

\* The amd64 file holds a header row, a separator row and one data row, and
\* the report of the run has one data row.
C7_Witness ==
    /\ Succeeded
    /\ AmdParsed
    /\ ~ArmSupplied
    /\ \E i \in 1..Len(InputLines(AmdPath)) :
          FirstCell(InputLines(AmdPath)[i]) = Chars("Tool")
    /\ \E i \in 1..Len(InputLines(AmdPath)) :
          FirstCell(InputLines(AmdPath)[i]) = Chars(":---")
    /\ Len(amd64_tools) = 1
    /\ Len(DataRows) = 1

(***************************************************************************)
(* C8                                                                      *)
(***************************************************************************)

OneArchitecture == (AmdSupplied /\ ~ArmSupplied) \/ (~AmdSupplied /\ ArmSupplied)

\* The mapping parsed from the only input file.
OnlyMapping == IF AmdSupplied THEN amd64_tools ELSE arm64_tools

\* C8: with one architecture supplied, parse_markdown_table of the report
\* gives back exactly the mapping parsed from the input file, keys,
\* versions and order; the five lines before the data rows give no entry.
C8_RoundTrip ==
    (pc = "reparsed" /\ OneArchitecture) =>
        /\ report_tools = OnlyMapping
        /\ ParseLines(EmptyDict, SubSeq(SplitLines(unified_content), 1, 5)) = EmptyDict

\* The report of a mapping of two tools has been parsed again.
C8_Witness ==
    /\ pc = "reparsed"
    /\ OneArchitecture
    /\ Len(OnlyMapping) = 2
    /\ Len(report_tools) = 2

(***************************************************************************)
(* C9                                                                      *)
(***************************************************************************)

Digits == {"0", "1", "2", "3", "4", "5", "6", "7", "8", "9"}

\* YYYY-MM-DD HH:MM:SS
IsTimestamp(t) ==
    /\ Len(t) = 19
    /\ \A i \in 1..19 :
          IF i \in {5, 8} THEN t[i] = "-"
          ELSE IF i = 11 THEN t[i] = " "
          ELSE IF i \in {14, 17} THEN t[i] = ":"
          ELSE t[i] \in Digits

\* The text ends with one newline and not with two.
OneTrailingNewline(text) ==
    /\ Len(text) >= 2
    /\ text[Len(text)] = NL
    /\ text[Len(text) - 1] # NL

\* The title, the timestamp line, a blank line, the header row, the
\* separator row and one row per tool of the union, each ended by a
\* newline, and one newline at the end of the text.
ReportLayout ==
    /\ OneTrailingNewline(unified_content)
    /\ Len(ReportLines) = 5 + Len(ExpectedOrder)
    /\ ReportLines[1] = Chars("# Tool Versions")
    /\ IsPrefix(Chars("Generated on "), ReportLines[2])
    /\ IsTimestamp(SubSeq(ReportLines[2], 14, Len(ReportLines[2])))
    /\ ReportLines[3] = <<>>
    /\ IsPrefix(Chars("| Tool | "), ReportLines[4])
    /\ ReportLines[5] \in {Chars("| :--- | :--- |"), Chars("| :--- | :--- | :--- |")}
    /\ \A i \in 1..Len(DataRows) :
          /\ IsPrefix(Chars("| ") \o ExpectedOrder[i] \o Chars(" | "), DataRows[i])
          /\ IsSuffix(Chars(" |"), DataRows[i])

\* C9 (as amended): the report has the layout above, with exactly one
\* trailing newline, in the text that is formatted and in the file written
\* to --output; standard output ends with the report followed by one more
\* newline, the one print adds.
C9_Layout ==
    Formatted =>
        /\ ReportLayout
        /\ (Succeeded /\ OutputSupplied) => fs[OutPath] = File(unified_content)
        /\ Succeeded => IsSuffix(unified_content \o <<NL>>, stdout)

\* A run with --output has ended: the report is in the file and on
\* standard output.
C9_Witness ==
    /\ Succeeded
    /\ OutputSupplied
    /\ Len(DataRows) = 2
    /\ fs[OutPath] = File(unified_content)
    /\ stdout # <<>>

\* C9 as stated: what is printed to standard output ends with exactly one
\* trailing newline too.
C9_OneNewlineOnStdout ==
    Formatted =>
        /\ ReportLayout
        /\ (Succeeded /\ OutputSupplied) => fs[OutPath] = File(unified_content)
        /\ Succeeded => IsSuffix(unified_content, stdout) /\ OneTrailingNewline(stdout)

(***************************************************************************)
(* C10                                                                     *)
(***************************************************************************)

\* The first and the last data line whose first column is k.
FirstAt(lines, k) ==
    CHOOSE i \in DataAt(lines) :
        /\ FirstCell(lines[i]) = k
        /\ \A j \in DataAt(lines) : FirstCell(lines[j]) = k => i <= j

LastAt(lines, k) ==
    CHOOSE i \in DataAt(lines) :
        /\ FirstCell(lines[i]) = k
        /\ \A j \in DataAt(lines) : FirstCell(lines[j]) = k => j <= i

\* One entry per tool, holding the version of the last line of the tool, at
\* the place of the first line of the tool.
LastWinsFirstPlace(tools, lines) ==
    /\ \A i, j \in 1..Len(tools) : i # j => tools[i].key # tools[j].key
    /\ \A i \in 1..Len(tools) :
          /\ \E n \in DataAt(lines) : FirstCell(lines[n]) = tools[i].key
          /\ tools[i].val = SecondColumn(lines[LastAt(lines, tools[i].key)])
    /\ \A i, j \in 1..Len(tools) :
          i < j => FirstAt(lines, tools[i].key) < FirstAt(lines, tools[j].key)

\* C10: a tool named by several rows of one input file has one entry, with
\* the version of its last row and at the place of its first row, in the
\* mapping and so in the rows of the report; the mapping of the other
\* architecture is decided by its own file alone.
C10_LastWriteWins ==
    /\ AmdParsed => LastWinsFirstPlace(amd64_tools, InputLines(AmdPath))
    /\ ArmParsed => LastWinsFirstPlace(arm64_tools, InputLines(ArmPath))
    /\ (Formatted /\ AmdParsed) =>
          \A i \in 1..Len(amd64_tools) : FirstCell(DataRows[i]) = amd64_tools[i].key

\* The amd64 file names a tool, then another, then the first again with
\* another version.
C10_Witness ==
    /\ Succeeded
    /\ AmdParsed
    /\ Len(InputLines(AmdPath)) = 3
    /\ DataAt(InputLines(AmdPath)) = {1, 2, 3}
    /\ FirstCell(InputLines(AmdPath)[1]) = FirstCell(InputLines(AmdPath)[3])
    /\ FirstCell(InputLines(AmdPath)[1]) # FirstCell(InputLines(AmdPath)[2])
    /\ SecondColumn(InputLines(AmdPath)[1]) # SecondColumn(InputLines(AmdPath)[3])
    /\ Len(amd64_tools) = 2

====
